---- MODULE Spec2Model ----
(***************************************************************************)
(* Model of knapsack_with_boosts (src/solutions/jaume.py): the function    *)
(* builds a CP-SAT model (boolean variables, linear constraints, a linear  *)
(* objective), hands it to the solver once and reads the answer back.      *)
(*                                                                         *)
(* Item indices are 0-based as in the source; TLA+ sequences are 1-based,  *)
(* so item i lives at position i + 1.  Boost factors are rationals         *)
(* f / FactorDen; objective coefficients and the reported total are kept   *)
(* in units of 1 / FactorDen so that all arithmetic is exact.              *)
(***************************************************************************)
EXTENDS Integers, Sequences, FiniteSets

VARIABLES weights, volumes, values, boosts, max_weight, max_volume,
          pc, model_vars, x, z, constraints, obj_terms, status, solution,
          selected, total

inputs == <<weights, volumes, values, boosts, max_weight, max_volume>>
vars == <<weights, volumes, values, boosts, max_weight, max_volume,
          pc, model_vars, x, z, constraints, obj_terms, status, solution,
          selected, total>>

(* ------------------------------ bounds --------------------------------- *)
MaxN == 2
MaxBoosts == 2
FactorDen == 2

BSeq(S, n) == UNION {[1..k -> S] : k \in 0..n}

\* An item is <<weight, volume, value>>.
ValidItems == {<<2, 1, 10>>, <<3, 1, 10>>, <<0, 1, 10>>, <<0, 0, 10>>, <<2, 0, 0>>}
NegativeItems == {<<-1, 1, 10>>, <<2, -1, 10>>}
PlainItems == {<<2, 1, 10>>, <<3, 1, 10>>}

\* Boost factors f / FactorDen: 0, 1 / FactorDen (penalties) and 2 (a bonus).
FactorSet == {0, 1, 2 * FactorDen}
FewFactors == {1, 2 * FactorDen}

(* --------------------------- Python helpers ---------------------------- *)
\* list[a] of Python: a negative index counts from the end, anything
\* outside -len .. len-1 raises IndexError.
IndexOk(a, len) == -len <= a /\ a < len
PyPos(a, len) == IF a >= 0 THEN a + 1 ELSE len + a + 1
PyGet(list, a) == list[PyPos(a, Len(list))]

\* range(n) as a sequence 0, 1, .., n-1
Range(n) == [i \in 1..n |-> i - 1]

(* ---------------------------- CP-SAT model ----------------------------- *)
\* A BoolVar of the model.
XVar(i) == [kind |-> "x", idx |-> i]
ZVar(k) == [kind |-> "z", idx |-> k]

\* A linear constraint  sum(coef * var) <= ub.
Le(terms, ub) == [terms |-> terms, ub |-> ub]
Term(c, v) == [coef |-> c, var |-> v]

\* Variant: the lower bound z_var >= x[a] + x[b] - 1 is missing.
LinkConstraintsNoLower(zv, xa, xb) ==
    << Le(<<Term(1, zv), Term(-1, xa)>>, 0),
       Le(<<Term(1, zv), Term(-1, xb)>>, 0) >>

\* model.Add(z_var <= x[a]); model.Add(z_var <= x[b]);
\* model.Add(z_var >= x[a] + x[b] - 1)
LinkConstraints(zv, xa, xb) ==
    << Le(<<Term(1, zv), Term(-1, xa)>>, 0),
       Le(<<Term(1, zv), Term(-1, xb)>>, 0),
       Le(<<Term(1, xa), Term(1, xb), Term(-1, zv)>>, 1) >>

\* Variant: the capacity is a strict bound, sum(..) < cap.
CapacityRowStrict(coefs, xs, cap) ==
    Le([i \in 1..Len(xs) |-> Term(coefs[i], xs[i])], cap - 1)

\* sum(weights[i] * x[i] for i in range(n)) <= max_weight, same for volumes
CapacityRow(coefs, xs, cap) ==
    Le([i \in 1..Len(xs) |-> Term(coefs[i], xs[i])], cap)

\* Variant: the volume constraint is missing.
CapacityConstraintsWeightOnly(ws, vs, xs, mw, mv) ==
    << CapacityRow(ws, xs, mw) >>

\* Variant: the two capacities are swapped.
CapacityConstraintsSwapped(ws, vs, xs, mw, mv) ==
    << CapacityRow(ws, xs, mv), CapacityRow(vs, xs, mw) >>

CapacityConstraints(ws, vs, xs, mw, mv) ==
    << CapacityRow(ws, xs, mw), CapacityRow(vs, xs, mv) >>

\* values[i] * x[i], in units of 1 / FactorDen
BaseCoef(value) == value * FactorDen

\* Variant: the whole boosted value is added, values[a] * boost.
ExtraWholeFactor(value, boost) == value * boost

\* extra = values[a] * (boost - 1), in units of 1 / FactorDen
Extra(value, boost) == value * (boost - FactorDen)

\* obj_terms after both loops of lines 48-55
ObjTerms(vals, xs, zs, bs) ==
    [i \in 1..Len(xs) |-> Term(BaseCoef(vals[i]), xs[i])]
    \o [k \in 1..Len(zs) |-> Term(Extra(PyGet(vals, zs[k].pair[1]), bs[k][3]), zs[k].var)]

(* ------------------------------ solver --------------------------------- *)
Assignments(nx, nz) == [x : [1..nx -> {0, 1}], z : [1..nz -> {0, 1}]]

ValueOf(asg, v) == IF v.kind = "x" THEN asg.x[v.idx + 1] ELSE asg.z[v.idx + 1]

RECURSIVE Eval(_, _)
Eval(terms, asg) ==
    IF terms = <<>> THEN 0
    ELSE Head(terms).coef * ValueOf(asg, Head(terms).var) + Eval(Tail(terms), asg)

Satisfies(asg, c) == Eval(c.terms, asg) <= c.ub

Feasible(cs, nx, nz) ==
    {asg \in Assignments(nx, nz) : \A j \in 1..Len(cs) : Satisfies(asg, cs[j])}

\* The assignments among feas that maximise the objective.
Optimal(feas, obj) ==
    LET vals == {Eval(obj, asg) : asg \in feas}
        best == CHOOSE v \in vals : \A w \in vals : w <= v
    IN {asg \in feas : Eval(obj, asg) = best}

NoSolution == [x |-> <<>>, z |-> <<>>]

(* --------------------------- result values ----------------------------- *)
None == [none |-> TRUE, v |-> 0]
NoneList == [none |-> TRUE, v |-> <<>>]
Some(val) == [none |-> FALSE, v |-> val]

\* Variant: only OPTIMAL counts as a solution.
HasSolutionOptimalOnly(st) == st = "OPTIMAL"

\* status in (cp_model.OPTIMAL, cp_model.FEASIBLE)
HasSolution(st) == st \in {"OPTIMAL", "FEASIBLE"}

RECURSIVE Filter(_, _)
\* [i for i in range(n) if solver.Value(x[i])]
Filter(is, asg) ==
    IF is = <<>> THEN <<>>
    ELSE (IF ValueOf(asg, XVar(Head(is))) # 0 THEN <<Head(is)>> ELSE <<>>)
         \o Filter(Tail(is), asg)

Selected(n, asg) == Filter(Range(n), asg)

(* ------------------------------- Init ---------------------------------- *)
\* The three argument lists have the same length n = len(values).
ItemLists(items) ==
    /\ weights = [i \in 1..Len(items) |-> items[i][1]]
    /\ volumes = [i \in 1..Len(items) |-> items[i][2]]
    /\ values = [i \in 1..Len(items) |-> items[i][3]]

\* Arguments within the documented domain.
ValidInput ==
    \E items \in BSeq(ValidItems, MaxN) :
        /\ ItemLists(items)
        /\ boosts \in BSeq((0..Len(items) - 1) \X (0..Len(items) - 1) \X FactorSet, MaxBoosts)
        /\ max_weight \in {0, 5}
        /\ max_volume \in {0, 2}

\* Boost triplets whose indices may lie outside 0 .. n-1.
BadIndexInput ==
    \E items \in BSeq(PlainItems, MaxN) :
        /\ ItemLists(items)
        /\ boosts \in BSeq((-1..Len(items)) \X (-1..Len(items)) \X FewFactors, MaxBoosts)
        /\ max_weight = 5
        /\ max_volume = 2

\* Negative weights, volumes or capacities.
NegativeInput ==
    \E items \in BSeq(ValidItems \cup NegativeItems, MaxN) :
        /\ ItemLists(items)
        /\ boosts \in BSeq((0..Len(items) - 1) \X (0..Len(items) - 1) \X FewFactors, 1)
        /\ max_weight \in {-1, 0, 5}
        /\ max_volume \in {-1, 0, 2}

Init ==
    /\ ValidInput \/ BadIndexInput \/ NegativeInput
    /\ pc = "vars"
    /\ model_vars = <<>>
    /\ x = <<>>
    /\ z = <<>>
    /\ constraints = <<>>
    /\ obj_terms = <<>>
    /\ status = "NONE"
    /\ solution = NoSolution
    /\ selected = NoneList
    /\ total = None

(* ------------------------------ actions -------------------------------- *)
\* lines 26-30: n = len(values); x = [model.NewBoolVar(..) for i in range(n)]
NewBoolVars ==
    /\ pc = "vars"
    /\ x' = [i \in 1..Len(values) |-> XVar(i - 1)]
    /\ model_vars' = x'
    /\ pc' = "link"
    /\ UNCHANGED <<inputs, z, constraints, obj_terms, status, solution, selected, total>>

\* lines 34-41, one iteration of the loop with both indices usable
LinkBoost ==
    /\ pc = "link"
    /\ Len(z) < Len(boosts)
    /\ LET b == boosts[Len(z) + 1]
           zv == ZVar(Len(z))
       IN /\ IndexOk(b[1], Len(x))
          /\ IndexOk(b[2], Len(x))
          /\ model_vars' = Append(model_vars, zv)
          /\ constraints' = constraints \o LinkConstraints(zv, PyGet(x, b[1]), PyGet(x, b[2]))
          /\ z' = Append(z, [pair |-> <<b[1], b[2]>>, var |-> zv])
    /\ UNCHANGED <<inputs, pc, x, obj_terms, status, solution, selected, total>>

\* lines 35-38: z_var is created, then x[a] raises IndexError, or z_var <= x[a]
\* is added and x[b] raises IndexError
LinkIndexError ==
    /\ pc = "link"
    /\ Len(z) < Len(boosts)
    /\ LET b == boosts[Len(z) + 1]
           zv == ZVar(Len(z))
       IN /\ ~(IndexOk(b[1], Len(x)) /\ IndexOk(b[2], Len(x)))
          /\ model_vars' = Append(model_vars, zv)
          /\ constraints' =
                \* only the first row, z_var <= x[a], exists when x[b] raises
                IF IndexOk(b[1], Len(x))
                THEN Append(constraints, LinkConstraints(zv, PyGet(x, b[1]), PyGet(x, b[1]))[1])
                ELSE constraints
    /\ pc' = "IndexError"
    /\ UNCHANGED <<inputs, x, z, obj_terms, status, solution, selected, total>>

\* lines 44-45
AddCapacity ==
    /\ pc = "link"
    /\ Len(z) = Len(boosts)
    /\ constraints' = constraints \o CapacityConstraints(weights, volumes, x, max_weight, max_volume)
    /\ pc' = "objective"
    /\ UNCHANGED <<inputs, model_vars, x, z, obj_terms, status, solution, selected, total>>

\* lines 48-57
BuildObjective ==
    /\ pc = "objective"
    /\ obj_terms' = ObjTerms(values, x, z, boosts)
    /\ pc' = "solve"
    /\ UNCHANGED <<inputs, model_vars, x, z, constraints, status, solution, selected, total>>

\* lines 60-62: the solver answers within its contract
Solve ==
    /\ pc = "solve"
    /\ LET feas == Feasible(constraints, Len(x), Len(z))
       IN \/ /\ feas # {}
             /\ status' = "OPTIMAL"
             /\ solution' \in Optimal(feas, obj_terms)
          \/ /\ status' = "FEASIBLE"
             /\ solution' \in feas
          \/ /\ feas = {}
             /\ status' = "INFEASIBLE"
             /\ solution' = NoSolution
          \/ /\ status' = "UNKNOWN"
             /\ solution' = NoSolution
    /\ pc' = "extract"
    /\ UNCHANGED <<inputs, model_vars, x, z, constraints, obj_terms, selected, total>>

\* lines 64-65
ReturnNone ==
    /\ pc = "extract"
    /\ ~HasSolution(status)
    /\ selected' = NoneList
    /\ total' = None
    /\ pc' = "done"
    /\ UNCHANGED <<inputs, model_vars, x, z, constraints, obj_terms, status, solution>>

\* lines 67-75
ReturnSolution ==
    /\ pc = "extract"
    /\ HasSolution(status)
    /\ selected' = Some(Selected(Len(values), solution))
    /\ total' = Some(Eval(obj_terms, solution))
    /\ pc' = "done"
    /\ UNCHANGED <<inputs, model_vars, x, z, constraints, obj_terms, status, solution>>

Next ==
    \/ NewBoolVars
    \/ LinkBoost
    \/ LinkIndexError
    \/ AddCapacity
    \/ BuildObjective
    \/ Solve
    \/ ReturnNone
    \/ ReturnSolution

Spec == Init /\ [][Next]_vars

(* ------------------- vocabulary of the properties ---------------------- *)
n == Len(values)
Items == 0..(n - 1)
BoostIdx == 1..Len(boosts)

\* the call has returned / has returned a selection
Returned == pc = "done"
ReturnedSelection == pc = "done" /\ ~selected.none
SelectedSet == {selected.v[i] : i \in 1..Len(selected.v)}

RECURSIVE SumOver(_, _)
\* sum of list[i] over the item indices i of the set S
SumOver(list, S) ==
    IF S = {} THEN 0
    ELSE LET i == CHOOSE j \in S : TRUE
         IN list[i + 1] + SumOver(list, S \ {i})

FitsCapacity(S) ==
    SumOver(weights, S) <= max_weight /\ SumOver(volumes, S) <= max_volume

\* boost k is active in S: both of its items are in S
Active(bs, k, S) == bs[k][1] \in S /\ bs[k][2] \in S

RECURSIVE BoostSum(_, _, _)
\* sum over the boosts 1..k of bs active in S of value_a * (factor - 1)
BoostSum(bs, k, S) ==
    IF k = 0 THEN 0
    ELSE BoostSum(bs, k - 1, S)
         + (IF Active(bs, k, S)
            THEN values[bs[k][1] + 1] * (bs[k][3] - FactorDen)
            ELSE 0)

\* the boosted value of the subset S under the boosts bs, in units of 1 / FactorDen
BoostedValue(bs, S) == SumOver(values, S) * FactorDen + BoostSum(bs, Len(bs), S)

IndexInRange(a) == 0 <= a /\ a < n
BadIndex == \E k \in BoostIdx : ~IndexInRange(boosts[k][1]) \/ ~IndexInRange(boosts[k][2])
Negative ==
    \/ \E i \in 1..Len(weights) : weights[i] < 0
    \/ \E i \in 1..Len(volumes) : volumes[i] < 0
    \/ max_weight < 0
    \/ max_volume < 0
Valid == ~BadIndex /\ ~Negative

(* ------------------------------- C1 ------------------------------------ *)
\* C1: every returned selection respects both capacity limits: the weights of
\* the selected items sum to at most max_weight and their volumes to at most
\* max_volume, whatever the inputs.
C1_CapacityRespected ==
    ReturnedSelection =>
        /\ SumOver(weights, SelectedSet) <= max_weight
        /\ SumOver(volumes, SelectedSet) <= max_volume

\* a returned selection of two items that uses both capacities up exactly
C1_Witness ==
    /\ ReturnedSelection
    /\ selected.v = <<0, 1>>
    /\ SumOver(weights, SelectedSet) = max_weight
    /\ SumOver(volumes, SelectedSet) = max_volume

(* ------------------------------- C2 ------------------------------------ *)
\* C2: when the solver reports OPTIMAL, the returned total_value is the largest
\* boosted value of any subset of the items that fits both capacities, where a
\* boost (a, b, factor) counts for a subset when a and b are both in it; for the
\* scenario weights [2,3], volumes [1,1], values [10,10], boosts [(0,1,2.0)],
\* capacities 5 and 2 the result is items [0, 1] with value 30.
Scenario ==
    /\ weights = <<2, 3>>
    /\ volumes = <<1, 1>>
    /\ values = <<10, 10>>
    /\ boosts = << <<0, 1, 2 * FactorDen>> >>
    /\ max_weight = 5
    /\ max_volume = 2

C2_OptimalIsMaximum ==
    (Returned /\ status = "OPTIMAL") =>
        /\ \E S \in SUBSET Items : FitsCapacity(S) /\ BoostedValue(boosts, S) = total.v
        /\ \A S \in SUBSET Items : FitsCapacity(S) => BoostedValue(boosts, S) <= total.v
        /\ Scenario => (selected.v = <<0, 1>> /\ total.v = 30 * FactorDen)

(* ------------------------------- C3 ------------------------------------ *)
\* C3: the returned total_value equals the value recomputed from the returned
\* selection: the selected items' values plus value_a * (factor - 1) for every
\* boost whose a and b are both selected, each boost adding its own term.
C3_TotalRecomputed ==
    ReturnedSelection => total.v = BoostedValue(boosts, SelectedSet)

(* ------------------------------- C4 ------------------------------------ *)
\* C4: when some boost index lies outside 0 .. n-1 the call is rejected before
\* any variable or constraint of the model exists, and no model is ever solved.
C4_BadIndexRejected ==
    BadIndex =>
        /\ model_vars = <<>>
        /\ constraints = <<>>
        /\ status = "NONE"
        /\ pc # "done"

(* ------------------------------- C5 ------------------------------------ *)
\* C5: when a weight, a volume or a capacity is negative the call is rejected:
\* it never returns a selection nor a no-solution result obtained by solving.
C5_NegativeRejected ==
    Negative => pc # "done"

(* ------------------------------- C6 ------------------------------------ *)
\* C6: the call returns (absent, absent) exactly when the solver's status is
\* neither OPTIMAL nor FEASIBLE; otherwise both components are present, and the
\* two components are never absent independently.
C6_NoSolutionIff ==
    Returned =>
        /\ (selected.none /\ total.none) <=> (status \notin {"OPTIMAL", "FEASIBLE"})
        /\ selected.none <=> total.none
        /\ (~selected.none /\ selected.v = <<>>) => (\A i \in 1..n : solution.x[i] = 0)

\* an infeasible model answered by the no-solution result
C6_Witness ==
    Returned /\ status = "INFEASIBLE" /\ selected.none /\ total.none

(* ------------------------------- C7 ------------------------------------ *)
\* C7 as stated: for non-negative inputs with max_weight = 0 or max_volume = 0
\* every returned selection is [] with total_value 0, unless some item has both
\* weight 0 and volume 0.
C7_ZeroCapacityEmpty ==
    ( /\ ReturnedSelection
      /\ ~Negative
      /\ max_weight = 0 \/ max_volume = 0
      /\ ~\E i \in 1..n : weights[i] = 0 /\ volumes[i] = 0 )
    => (selected.v = <<>> /\ total.v = 0)

\* C7 amended: for non-negative inputs with max_weight = 0 or max_volume = 0
\* every returned selection is [] with total_value 0, unless some item fits
\* both limits on its own (weight <= max_weight and volume <= max_volume).
C7_ZeroCapacityNoFit ==
    ( /\ ReturnedSelection
      /\ ~Negative
      /\ max_weight = 0 \/ max_volume = 0
      /\ ~\E i \in 1..n : weights[i] <= max_weight /\ volumes[i] <= max_volume )
    => (selected.v = <<>> /\ total.v = 0)

\* two items, none of which fits a zero capacity, and the optimal answer
C7_Witness ==
    /\ ReturnedSelection
    /\ status = "OPTIMAL"
    /\ ~Negative
    /\ max_weight = 0
    /\ max_volume > 0
    /\ n = 2
    /\ \A i \in 1..n : weights[i] > 0
    /\ selected.v = <<>>

(* ------------------------------- C8 ------------------------------------ *)
\* the boosts without the k-th one
WithoutBoost(k) == SubSeq(boosts, 1, k - 1) \o SubSeq(boosts, k + 1, Len(boosts))

\* the objective the code builds for the boosts bs, evaluated on the assignment
\* that selects exactly the items of S (each z the conjunction of its two x)
ModelValue(bs, S) ==
    LET zs == [k \in 1..Len(bs) |-> [pair |-> <<bs[k][1], bs[k][2]>>, var |-> ZVar(k - 1)]]
        xs == [i \in 1..n |-> IF (i - 1) \in S THEN 1 ELSE 0]
        asg == [x |-> xs,
                z |-> [k \in 1..Len(bs) |->
                         IF PyGet(xs, bs[k][1]) = 1 /\ PyGet(xs, bs[k][2]) = 1 THEN 1 ELSE 0]]
    IN Eval(ObjTerms(values, x, zs, bs), asg)

Penalty(k) == boosts[k][3] < FactorDen /\ Active(boosts, k, SelectedSet)

\* C8 as stated: a boost with factor < 1 whose two items are both selected makes
\* the reported total strictly smaller than the value the same selection has
\* without that boost, for all non-negative item values.
C8_PenaltyStrict ==
    ReturnedSelection =>
        \A k \in BoostIdx :
            Penalty(k) => total.v < ModelValue(WithoutBoost(k), SelectedSet)

\* C8 amended: such a boost never makes the reported total larger, and makes
\* it strictly smaller whenever the value of its item a is positive (with
\* value_a = 0 the incremental term is 0 and the total is unchanged).
C8_PenaltyWhenPositive ==
    ReturnedSelection =>
        \A k \in BoostIdx :
            Penalty(k) =>
                /\ total.v <= ModelValue(WithoutBoost(k), SelectedSet)
                /\ values[boosts[k][1] + 1] > 0
                        => total.v < ModelValue(WithoutBoost(k), SelectedSet)
                /\ values[boosts[k][1] + 1] = 0
                        => total.v = ModelValue(WithoutBoost(k), SelectedSet)

\* a returned selection with an active penalty on an item of positive value
C8_Witness ==
    /\ ReturnedSelection
    /\ ~BadIndex
    /\ \E k \in BoostIdx :
          /\ Penalty(k)
          /\ boosts[k][1] # boosts[k][2]
          /\ values[boosts[k][1] + 1] > 0
          /\ total.v < ModelValue(WithoutBoost(k), SelectedSet)

(* ------------------------------- C9 ------------------------------------ *)
\* C9: in every assignment satisfying the constraints of the model, the
\* conjunction variable z_k of every boost k = (a, b, factor) is 1 exactly when
\* x[a] and x[b] are both 1, whatever the factor, for every triplet on its own.
C9_ConjunctionLinked ==
    pc \in {"link", "objective", "solve"} =>
        \A asg \in Feasible(constraints, Len(x), Len(z)) :
            \A k \in 1..Len(z) :
                asg.z[k] = 1 <=>
                    (PyGet(asg.x, boosts[k][1]) = 1 /\ PyGet(asg.x, boosts[k][2]) = 1)

\* a complete model with two triplets on the same pair, one of them a penalty
\* and one a bonus, and a triplet with a = b, satisfied with both items selected
C9_Witness ==
    /\ pc = "solve"
    /\ Len(z) = 2
    /\ boosts[1][1] # boosts[1][2]
    /\ boosts[2][1] = boosts[2][2]
    /\ boosts[1][3] < FactorDen
    /\ boosts[2][3] > FactorDen
    /\ \E asg \in Feasible(constraints, Len(x), Len(z)) :
          asg.z[1] = 1 /\ asg.z[2] = 1

(* ------------------------------- C10 ----------------------------------- *)
\* the assignment that selects nothing
Zero == [x |-> [i \in 1..Len(x) |-> 0], z |-> [k \in 1..Len(z) |-> 0]]

\* C10: for valid inputs the empty selection satisfies the built model, the
\* solver never reports INFEASIBLE, and with status OPTIMAL the returned
\* total_value is >= 0.
C10_EmptyFeasible ==
    Valid =>
        /\ pc \in {"solve", "extract", "done"}
              => \A j \in 1..Len(constraints) : Satisfies(Zero, constraints[j])
        /\ status # "INFEASIBLE"
        /\ (Returned /\ status = "OPTIMAL") => (~total.none /\ total.v >= 0)

\* two stacked penalties of factor 0 on an item of positive value, whose net
\* contribution is negative; the optimal answer leaves the item out
C10_Witness ==
    /\ Valid
    /\ Returned
    /\ status = "OPTIMAL"
    /\ Len(boosts) = 2
    /\ boosts[1] = boosts[2]
    /\ boosts[1][1] = boosts[1][2]
    /\ boosts[1][3] = 0
    /\ values[boosts[1][1] + 1] > 0
    /\ boosts[1][1] \notin SelectedSet
    /\ total.v >= 0
====
